---- MODULE Spec2Model ----
(***************************************************************************)
(* A model of fero, an interactive shell (src/main.cpp).                   *)
(*                                                                         *)
(*   Spec       the prompt loop of main around read_input: the raw-mode    *)
(*              line editor, one action per iteration of its loop.         *)
(*   SpecLcp    lcp_ applied to bounded lists of strings.                  *)
(*   SpecParse  parse_cmd applied to bounded input lines.                  *)
(*   SpecRedirect  parse_cmd applied to lines of whole tokens, the         *)
(*              redirection operators among them.                          *)
(*   SpecShell  the dispatch of one Command per prompt: run_builtin with   *)
(*              apply_redirection / restore_io on the shell's descriptor   *)
(*              table, then exe_extr with its child process.               *)
(*   SpecEcho   echo with its stdout redirected, with the content of the   *)
(*              target files and the buffer of stdout.                     *)
(*                                                                         *)
(* Strings are sequences of one-character strings.                         *)
(***************************************************************************)
EXTENDS Integers, Sequences, FiniteSets

VARIABLES
    pc,          \* position of the shell process in main / read_input / run_builtin / exe_extr
    input,       \* read_input: string input (the edit buffer)
    cursor,      \* read_input: size_t cursor
    raw,         \* TRUE while the terminal is in the mode set by enableRawMode
    env_path,    \* the directories named by getenv("PATH"), in order
    ev,          \* the bytes the last iteration of read_input's loop consumed, and their decoding
    unread,      \* the bytes the terminal has sent for the last key that getchar has not returned
    key,         \* the escape sequence of the last key, with input and cursor when it was pressed
    term,        \* the terminal: the characters of its current line and its cursor column (from 0)
    strings,     \* lcp_: its argument
    prefix,      \* lcp_: its result
    line,        \* parse_cmd: its argument
    parsed,      \* parse_cmd: the Command it returns
    cmd,         \* main: Command cmd, as dispatched
    fds,         \* the shell's descriptor table: descriptor -> what it is bound to
    saved_stdout, saved_stderr,                  \* run_builtin's locals
    did_redirect_stdout, did_redirect_stderr,
    entry,       \* the bindings of stdout and stderr when the Command was dispatched
    child,       \* exe_extr: the child process, or NoChild
    files,       \* the files whose content is followed: path -> whether it exists, and its bytes
    files0,      \* files when the Command was dispatched
    out_buf,     \* the bytes written to cout that the C library has not yet written to stdout
    line_buffered \* TRUE when stdout was a terminal at the first output (line 422)

vars == <<pc, input, cursor, raw, env_path, ev, unread, key, term, strings, prefix, line, parsed, cmd, fds,
          saved_stdout, saved_stderr, did_redirect_stdout, did_redirect_stderr, entry, child,
          files, files0, out_buf, line_buffered>>

editVars  == <<input, cursor, raw, env_path, ev, unread, key, term>>
lcpVars   == <<strings, prefix>>
parseVars == <<line, parsed>>
fileVars  == <<files, files0, out_buf, line_buffered>>
shellVars == <<cmd, fds, saved_stdout, saved_stderr, did_redirect_stdout,
               did_redirect_stderr, entry, child, fileVars>>

-----------------------------------------------------------------------------
(* Bounds *)

MaxLen == 3         \* Insert is taken only while the buffer is shorter than this
MaxPathDirs == 2    \* number of directories on PATH
MaxStrings == 3     \* length of the list given to lcp_
MaxWord == 2        \* length of each string in that list
MaxLine == 5        \* length of the line given to parse_cmd
MaxFd == 6          \* size of the shell's descriptor table (RLIMIT_NOFILE)

-----------------------------------------------------------------------------
(* Bytes delivered by getchar *)

ESC == "ESC"
NL  == "NL"
TAB == "TAB"
DEL == "DEL"      \* 127
BS  == "BS"       \* 8
EOT == "EOT"      \* some other byte for which isprint is false

\* the bytes read at the top of the loop: for these isprint holds
Printable == {"a", "b"}
\* for these it does not
Control == {ESC, NL, TAB, DEL, BS, EOT}
\* the bytes read after an ESC
EscBytes == {"[", "C", "D", "a"}

-----------------------------------------------------------------------------
(* The executable search path *)

Entry(n, x) == [name |-> n, x |-> x]

\* a directory holding ab, abb (executable) and aba (not executable)
DirA == [kind |-> "dir",
         entries |-> << Entry(<<"a","b">>, TRUE), Entry(<<"a","b","a">>, FALSE),
                        Entry(<<"a","b","b">>, TRUE) >>]
\* a directory holding b-a, ab again, and b-b
DirB == [kind |-> "dir",
         entries |-> << Entry(<<"b","-","a">>, TRUE), Entry(<<"a","b">>, TRUE),
                        Entry(<<"b","-","b">>, TRUE) >>]
\* a PATH component that does not exist
DirMissing == [kind |-> "missing", entries |-> <<>>]
\* a PATH component that exists and cannot be listed (a regular file, an unreadable directory)
DirUnlistable == [kind |-> "unlistable", entries |-> <<>>]

Dirs == {DirA, DirB, DirMissing, DirUnlistable}

PathEnvs == UNION {[1..n -> Dirs] : n \in 1..MaxPathDirs}

\* filename.rfind(prefix, 0) == 0
starts_with(filename, p) ==
    /\ Len(p) <= Len(filename)
    /\ \A i \in 1..Len(p) : filename[i] = p[i]

\* the body of the directory_iterator loop, over one directory's entries from index k
RECURSIVE dir_matches(_, _, _)
dir_matches(entries, k, p) ==
    IF k > Len(entries) THEN <<>>
    ELSE (IF starts_with(entries[k].name, p) /\ entries[k].x
          THEN <<entries[k].name>> ELSE <<>>) \o dir_matches(entries, k + 1, p)

\* get_matches: threw is TRUE when directory_iterator raised filesystem_error
RECURSIVE get_matches_from(_, _, _)
get_matches_from(path, i, p) ==
    IF i > Len(path) THEN [threw |-> FALSE, matches |-> <<>>]
    ELSE IF path[i].kind = "missing" THEN get_matches_from(path, i + 1, p)
    ELSE IF path[i].kind = "unlistable" THEN [threw |-> TRUE, matches |-> <<>>]
    ELSE LET rest == get_matches_from(path, i + 1, p) IN
         [threw |-> rest.threw,
          matches |-> IF rest.threw THEN <<>>
                      ELSE dir_matches(path[i].entries, 1, p) \o rest.matches]

get_matches(path, p) == get_matches_from(path, 1, p)

-----------------------------------------------------------------------------
(* lcp_ *)

\* the inner while loop: the first j at which it stops
RECURSIVE lcp_while(_, _, _)
lcp_while(p, s, j) ==
    IF j < Len(p) /\ j < Len(s) /\ p[j + 1] = s[j + 1]
    THEN lcp_while(p, s, j + 1) ELSE j

lcp_for_no_truncate(ss, i, p) == p

\* the for loop from index i with the running prefix p
RECURSIVE lcp_for(_, _, _)
lcp_for(ss, i, p) ==
    IF i > Len(ss) THEN p
    ELSE LET np == SubSeq(p, 1, lcp_while(p, ss[i], 0)) IN
         IF np = <<>> THEN np ELSE lcp_for(ss, i + 1, np)

lcp_(ss) == IF ss = <<>> THEN <<>> ELSE lcp_for(ss, 2, ss[1])

-----------------------------------------------------------------------------
(* read_input: string edits *)

string_insert_overwrite(s, k, ch) ==
    IF k < Len(s) THEN [s EXCEPT ![k + 1] = ch] ELSE Append(s, ch)

\* input.insert(input.begin() + cursor, ch)
string_insert(s, k, ch) ==
    [i \in 1..(Len(s) + 1) |-> IF i <= k THEN s[i] ELSE IF i = k + 1 THEN ch ELSE s[i - 1]]

\* input.erase(input.begin() + cursor - 1)
string_erase(s, k) ==
    [i \in 1..(Len(s) - 1) |-> IF i < k THEN s[i] ELSE s[i + 1]]

NoEvent == [kind |-> "none", bytes |-> <<>>]

\* no key, or a key that sends one byte
NoKey == [seq |-> <<>>, input |-> <<>>, cursor |-> 0]
Event(kind, bytes) == [kind |-> kind, bytes |-> bytes]

Edit(i, c) == [input |-> i, cursor |-> c]

\* case 'C' (lines 140-145)
move_right_unclamped(inp, cur) == Edit(inp, cur + 1)

move_right(inp, cur) == IF cur < Len(inp) THEN Edit(inp, cur + 1) ELSE Edit(inp, cur)

\* case 'D' (lines 146-151)
move_left(inp, cur) == IF cur > 0 THEN Edit(inp, cur - 1) ELSE Edit(inp, cur)

backspace_unguarded(inp, cur) ==
    IF inp = <<>> THEN Edit(inp, cur)
    ELSE IF cur > 0 THEN Edit(string_erase(inp, cur), cur - 1) ELSE Edit(string_erase(inp, 1), 0)

\* the Backspace branch (lines 181-191)
backspace(inp, cur) ==
    IF cur > 0 THEN Edit(string_erase(inp, cur), cur - 1) ELSE Edit(inp, cur)

\* the isprint branch (lines 192-200)
insert(inp, cur, ch) == Edit(string_insert(inp, cur, ch), cur + 1)

\* the Tab branch once get_matches has returned (lines 163-180)
complete_no_space(inp, cur, matches) ==
    IF matches = <<>> THEN Edit(inp, cur)
    ELSE IF Len(matches) = 1 THEN Edit(matches[1], Len(matches[1]))
    ELSE IF lcp_(matches) # inp THEN Edit(lcp_(matches), Len(lcp_(matches)))
    ELSE Edit(inp, cur)

complete_first_match(inp, cur, matches) ==
    IF matches = <<>> THEN Edit(inp, cur)
    ELSE IF Len(matches) = 1 THEN Edit(matches[1] \o <<" ">>, Len(matches[1]) + 1)
    ELSE IF matches[1] # inp THEN Edit(matches[1], Len(matches[1]))
    ELSE Edit(inp, cur)

complete(inp, cur, matches) ==
    IF matches = <<>> THEN Edit(inp, cur)
    ELSE IF Len(matches) = 1 THEN Edit(matches[1] \o <<" ">>, Len(matches[1]) + 1)
    ELSE IF lcp_(matches) # inp THEN Edit(lcp_(matches), Len(lcp_(matches)))
    ELSE Edit(inp, cur)

-----------------------------------------------------------------------------
(* Command *)

\* a default-constructed Command (lines 25-35)
NoCommand == [args |-> <<>>, redirect_stdout |-> FALSE, stdout_file |-> <<>>, append_stdout |-> FALSE,
              redirect_stderr |-> FALSE, stderr_file |-> <<>>, append_stderr |-> FALSE]

-----------------------------------------------------------------------------
(* parse_cmd *)

QUOTE  == "'"
DQUOTE == "\""
isspace(ch) == ch = " "

closes_on_any_quote(in_quotes, quote_char, ch) == in_quotes

\* in_quotes && ch == quote_char (line 214)
closes_span(in_quotes, quote_char, ch) == in_quotes /\ ch = quote_char

\* the tokenizer loop (lines 212-228) from character i on; t is the tuple of its locals
RECURSIVE tokenize(_, _, _)
tokenize(inp, i, t) ==
    IF i > Len(inp) THEN t
    ELSE LET ch == inp[i] IN
         tokenize(inp, i + 1,
            IF ch = QUOTE \/ ch = DQUOTE
            THEN IF closes_span(t.in_quotes, t.quote_char, ch)
                 THEN [t EXCEPT !.in_quotes = FALSE]
                 ELSE IF ~t.in_quotes
                 THEN [t EXCEPT !.in_quotes = TRUE, !.quote_char = ch]
                 ELSE [t EXCEPT !.current = Append(@, ch)]
            ELSE IF isspace(ch) /\ ~t.in_quotes
            THEN IF t.current # <<>>
                 THEN [t EXCEPT !.args = Append(@, t.current), !.current = <<>>]
                 ELSE t
            ELSE [t EXCEPT !.current = Append(@, ch)])

\* tokens_of without lines 228-230: the token still open at the end of the line is lost
tokens_of_no_final_push(inp) ==
    LET t == tokenize(inp, 1, [args |-> <<>>, current |-> <<>>, in_quotes |-> FALSE,
                               quote_char |-> "NUL"]) IN
    [args |-> t.args, in_quotes |-> t.in_quotes]

\* lines 207-230: the token list
tokens_of(inp) ==
    LET t == tokenize(inp, 1, [args |-> <<>>, current |-> <<>>, in_quotes |-> FALSE,
                               quote_char |-> "NUL"]) IN
    [args |-> IF t.current # <<>> THEN Append(t.args, t.current) ELSE t.args,
     in_quotes |-> t.in_quotes]

\* the redirection pass (lines 234-266) from token i (1-based) on
RECURSIVE extract_redirections(_, _, _)
extract_redirections(args, i, c) ==
    IF i > Len(args) THEN c
    ELSE IF args[i] = <<">">> \/ args[i] = <<"1", ">">>
    THEN IF i + 1 <= Len(args)
         THEN extract_redirections(args, i + 2,
                 [c EXCEPT !.stdout_file = args[i + 1], !.redirect_stdout = TRUE,
                           !.append_stdout = FALSE])
         ELSE extract_redirections(args, i + 1, c)
    ELSE IF args[i] = <<">", ">">> \/ args[i] = <<"1", ">", ">">>
    THEN IF i + 1 <= Len(args)
         THEN extract_redirections(args, i + 2,
                 [c EXCEPT !.stdout_file = args[i + 1], !.redirect_stdout = TRUE,
                           !.append_stdout = TRUE])
         ELSE extract_redirections(args, i + 1, c)
    ELSE IF args[i] = <<"2", ">">>
    THEN IF i + 1 <= Len(args)
         THEN extract_redirections(args, i + 2,
                 [c EXCEPT !.stderr_file = args[i + 1], !.redirect_stderr = TRUE,
                           !.append_stderr = FALSE])
         ELSE extract_redirections(args, i + 1, c)
    ELSE IF args[i] = <<"2", ">", ">">>
    THEN IF i + 1 <= Len(args)
         THEN extract_redirections(args, i + 2,
                 [c EXCEPT !.stderr_file = args[i + 1], !.redirect_stderr = TRUE,
                           !.append_stderr = TRUE])
         ELSE extract_redirections(args, i + 1, c)
    ELSE extract_redirections(args, i + 1, [c EXCEPT !.args = Append(@, args[i])])

\* parse_cmd whose redirection pass leaves in args an operator that ends the token list
\* (the else that lines 237-244 do not have)
parse_cmd_keep_trailing_operator(inp) ==
    LET ts == tokens_of(inp).args
        c  == extract_redirections(ts, 1, NoCommand) IN
    IF ts # <<>> /\ ts[Len(ts)][Len(ts[Len(ts)])] = ">"
          /\ c = extract_redirections(SubSeq(ts, 1, Len(ts) - 1), 1, NoCommand)
    THEN [c EXCEPT !.args = Append(@, ts[Len(ts)])]
    ELSE c

\* parse_cmd whose redirection pass starts after the command name
parse_cmd_skip_first(inp) ==
    LET ts == tokens_of(inp).args IN
    IF ts = <<>> THEN NoCommand
    ELSE extract_redirections(ts, 2, [NoCommand EXCEPT !.args = <<ts[1]>>])

parse_cmd(inp) == extract_redirections(tokens_of(inp).args, 1, NoCommand)

-----------------------------------------------------------------------------
(* Files, and cout on top of the C library's stdout *)

STDOUT_FILENO == 1
STDERR_FILENO == 2

NoFile == [exists |-> FALSE, data |-> <<>>]

\* write(fd, data) on the descriptor table t: the bytes go to the end of the file fd is
\* bound to (O_APPEND, or a file this process alone writes from its truncation on); what is
\* written to a terminal, a pipe or a file that is not followed leaves fs as it is
sys_write(fs, t, fd, data) ==
    IF fd \in DOMAIN t /\ t[fd].kind = "file" /\ t[fd].path \in DOMAIN fs
    THEN [fs EXCEPT ![t[fd].path] = [exists |-> TRUE, data |-> @.data \o data]]
    ELSE fs

\* open(path, O_WRONLY | O_CREAT | (append ? O_APPEND : O_TRUNC)) that succeeded
opened(fs, path, append) ==
    IF path \in DOMAIN fs
    THEN [fs EXCEPT ![path] = [exists |-> TRUE, data |-> IF append THEN @.data ELSE <<>>]]
    ELSE fs

\* cout << text: the bytes join the buffer of stdout; a line-buffered stdout is written out
\* at a newline, a fully buffered one (stdout not a terminal) only when it is flushed
cout_write(buf, text, lb) ==
    LET b == buf \o text IN
    IF lb /\ text # <<>> /\ text[Len(text)] = "\n"
    THEN [out |-> b, buf |-> <<>>]
    ELSE [out |-> <<>>, buf |-> b]

\* cout << text << flush
cout_flush(buf, text) == [out |-> buf \o text, buf |-> <<>>]

\* the characters PROMPT shows (line 22; its colour sequences take no column)
PROMPT == <<"$", " ">>

-----------------------------------------------------------------------------
(* The terminal as read_input and main write to it *)

Term(cells, col) == [cells |-> cells, col |-> col]

Blanks(n) == [i \in 1..n |-> " "]

\* characters written at the cursor: each overwrites the cell it lands on
RECURSIVE term_put(_, _)
term_put(t, chars) ==
    IF chars = <<>> THEN t
    ELSE LET cells == IF t.col < Len(t.cells)
                      THEN [t.cells EXCEPT ![t.col + 1] = chars[1]]
                      ELSE t.cells \o Blanks(t.col - Len(t.cells)) \o <<chars[1]>> IN
         term_put(Term(cells, t.col + 1), Tail(chars))

\* "\r"
term_cr(t) == Term(t.cells, 0)

\* "\n", which the terminal driver sends as "\r\n" (OPOST is left on, line 45): a fresh line
term_nl(t) == Term(<<>>, 0)

\* ESC [ n C and ESC [ n D
term_right(t, n) == Term(t.cells, t.col + n)
term_left(t, n) == Term(t.cells, IF t.col > n THEN t.col - n ELSE 0)

\* what the arrow branches write (lines 141-144, 147-150)
draw_move_right(t, inp, cur) == IF cur < Len(inp) THEN term_right(t, 1) ELSE t
draw_move_left(t, inp, cur) == IF cur > 0 THEN term_left(t, 1) ELSE t

\* what the Backspace branch writes (lines 185-190), inp and cur being the new input, cursor
draw_backspace(t, inp, cur) ==
    LET t1 == term_put(term_cr(t), PROMPT \o inp \o <<" ">>)
        t2 == term_right(term_cr(t1), 2 + cur)
        diff == Len(inp) - cur IN
    IF diff > 0 THEN term_left(t2, diff) ELSE t2

\* what the isprint branch writes (lines 195-199), inp and cur being the new input, cursor
draw_insert(t, inp, cur) ==
    LET t1 == term_put(term_cr(t), PROMPT \o inp)
        diff == Len(inp) - cur IN
    IF diff > 0 THEN term_left(t1, diff) ELSE t1

\* for (match : matches) cout << match << " " (lines 175-176)
RECURSIVE draw_matches(_, _)
draw_matches(t, matches) ==
    IF matches = <<>> THEN t
    ELSE draw_matches(term_put(t, matches[1] \o <<" ">>), Tail(matches))

\* what the Tab branch writes once get_matches has returned (lines 163-180), inp being the
\* input before the key and e the Edit made of it
draw_complete(t, inp, matches, e) ==
    IF matches = <<>> THEN t
    ELSE IF e.input # inp THEN term_put(term_cr(t), PROMPT \o e.input)
    ELSE term_put(term_nl(draw_matches(t, matches)), PROMPT)

-----------------------------------------------------------------------------
(* main and read_input *)

NoChild == [state |-> "none"]

\* main, lines 424-426, and the head of read_input, lines 129-132.
\* filesystem::current_path() raises filesystem_error when the working directory is gone;
\* nothing catches it and the process terminates. Line 425 ends with flush: what stdout
\* still buffers is written, with the prompt, to what descriptor 1 is bound to now.
Prompt ==
    /\ pc = "main"
    /\ \E cwd_ok \in BOOLEAN :
         IF cwd_ok
         THEN /\ pc' = "read_input"
              /\ input' = <<>>
              /\ cursor' = 0
              /\ raw' = TRUE
              /\ ev' = NoEvent
              /\ key' = NoKey
              /\ term' = term_put(term_nl(term), PROMPT)
              /\ files' = sys_write(files, fds, STDOUT_FILENO, cout_flush(out_buf, PROMPT).out)
              /\ out_buf' = <<>>
         ELSE /\ pc' = "terminated"
              /\ UNCHANGED <<input, cursor, raw, ev, key, term, files, out_buf>>
    /\ UNCHANGED <<env_path, unread, lcpVars, parseVars, cmd, fds, saved_stdout, saved_stderr,
                   did_redirect_stdout, did_redirect_stderr, entry, child, files0,
                   line_buffered>>

\* the bytes a key's escape sequence goes on with after those one iteration consumes: none
\* (ESC [ A, Alt-a), or a printable final byte (the ~ of ESC [ 3 ~, the P of ESC O P)
Trailing(consumed) ==
    IF consumed \in {<<ESC, "[", "C">>, <<ESC, "[", "D">>} THEN {<<>>}
    ELSE {<<>>, <<"b">>}

\* one iteration whose first byte is ESC (lines 135-155): a key is pressed that sends an
\* escape sequence; the iteration consumes three of its bytes after ESC [, two otherwise
EscapeSequence ==
    /\ pc = "read_input"
    /\ unread = <<>>
    /\ \E nextch \in EscBytes :
         IF nextch = "["
         THEN \E nextch2 \in EscBytes :
                LET e == IF nextch2 = "C" THEN move_right(input, cursor)
                         ELSE IF nextch2 = "D" THEN move_left(input, cursor)
                         ELSE Edit(input, cursor) IN
                /\ input' = e.input
                /\ cursor' = e.cursor
                /\ term' = IF nextch2 = "C" THEN draw_move_right(term, input, cursor)
                           ELSE IF nextch2 = "D" THEN draw_move_left(term, input, cursor)
                           ELSE term
                /\ ev' = Event("escape", <<ESC, nextch, nextch2>>)
         ELSE /\ UNCHANGED <<input, cursor, term>>
              /\ ev' = Event("escape", <<ESC, nextch>>)
    /\ \E more \in Trailing(ev'.bytes) :
         /\ more # <<>> => Len(input) < MaxLen
         /\ unread' = more
         /\ key' = [seq |-> ev'.bytes \o more, input |-> input, cursor |-> cursor]
    /\ UNCHANGED <<pc, raw, env_path, lcpVars, parseVars, shellVars>>

\* ch == '\n' (lines 156-158), then lines 202-203
Submit ==
    /\ pc = "read_input"
    /\ unread = <<>>
    /\ ev' = Event("submit", <<NL>>)
    /\ key' = NoKey
    /\ term' = term_nl(term)
    /\ raw' = FALSE
    /\ pc' = "dispatch"
    /\ UNCHANGED <<input, cursor, env_path, unread, lcpVars, parseVars, shellVars>>

\* ch == '\t' (lines 159-180). An exception raised in get_matches leaves read_input
\* and main, neither of which catches it: std::terminate ends the process.
Tab ==
    /\ pc = "read_input"
    /\ unread = <<>>
    /\ ev' = Event("tab", <<TAB>>)
    /\ key' = NoKey
    /\ IF input = <<>>
       THEN UNCHANGED <<pc, input, cursor, term>>
       ELSE LET r == get_matches(env_path, input) IN
            IF r.threw
            THEN /\ pc' = "terminated"
                 /\ UNCHANGED <<input, cursor, term>>
            ELSE LET e == complete(input, cursor, r.matches) IN
                 /\ input' = e.input
                 /\ cursor' = e.cursor
                 /\ term' = draw_complete(term, input, r.matches, e)
                 /\ UNCHANGED pc
    /\ UNCHANGED <<raw, env_path, unread, lcpVars, parseVars, shellVars>>

\* ch == 127 || ch == 8 (lines 181-191)
Backspace ==
    /\ pc = "read_input"
    /\ unread = <<>>
    /\ \E ch \in {DEL, BS} :
         LET e == backspace(input, cursor) IN
         /\ input' = e.input
         /\ cursor' = e.cursor
         /\ term' = IF cursor > 0 THEN draw_backspace(term, e.input, e.cursor) ELSE term
         /\ ev' = Event("backspace", <<ch>>)
    /\ key' = NoKey
    /\ UNCHANGED <<pc, raw, env_path, unread, lcpVars, parseVars, shellVars>>

\* isprint(ch) (lines 192-200): ch is the next unread byte of the last key when there is
\* one, the byte of a key pressed now otherwise
Insert ==
    /\ pc = "read_input"
    /\ Len(input) < MaxLen
    /\ \E ch \in (IF unread = <<>> THEN Printable ELSE {Head(unread)}) :
         LET e == insert(input, cursor, ch) IN
         /\ input' = e.input
         /\ cursor' = e.cursor
         /\ term' = draw_insert(term, e.input, e.cursor)
         /\ ev' = Event("insert", <<ch>>)
    /\ IF unread = <<>>
       THEN key' = NoKey /\ UNCHANGED unread
       ELSE unread' = Tail(unread) /\ UNCHANGED key
    /\ UNCHANGED <<pc, raw, env_path, lcpVars, parseVars, shellVars>>

\* any other byte: no branch of the if chain is taken
Ignored ==
    /\ pc = "read_input"
    /\ unread = <<>>
    /\ \E ch \in Control \ {ESC, NL, TAB, DEL, BS} :
         ev' = Event("ignored", <<ch>>)
    /\ key' = NoKey
    /\ UNCHANGED <<pc, input, cursor, raw, env_path, unread, term, lcpVars, parseVars,
                   shellVars>>

\* main, lines 427-437, with the line read: parse and dispatch, then the next prompt,
\* unless the command was exit
Dispatched ==
    /\ pc = "dispatch"
    /\ \E exits \in BOOLEAN : pc' = IF exits /\ input # <<>> THEN "exited" ELSE "main"
    /\ UNCHANGED <<editVars, lcpVars, parseVars, shellVars>>

\* the variables a specification does not use stay at these values
IdleEdit ==
    /\ input = <<>> /\ cursor = 0 /\ raw = FALSE /\ env_path = <<>> /\ ev = NoEvent
    /\ unread = <<>> /\ key = NoKey /\ term = Term(<<>>, 0)
IdleLcp   == strings = <<>> /\ prefix = <<>>
IdleParse == line = <<>> /\ parsed = NoCommand
IdleShell ==
    /\ cmd = NoCommand
    /\ fds = <<>>
    /\ saved_stdout = -1
    /\ saved_stderr = -1
    /\ did_redirect_stdout = FALSE
    /\ did_redirect_stderr = FALSE
    /\ entry = <<>>
    /\ child = NoChild
    /\ files = <<>>
    /\ files0 = <<>>
    /\ out_buf = <<>>
    /\ line_buffered = TRUE

Init ==
    /\ pc = "main"
    /\ input = <<>>
    /\ cursor = 0
    /\ raw = FALSE
    /\ env_path \in PathEnvs
    /\ ev = NoEvent
    /\ unread = <<>>
    /\ key = NoKey
    /\ term = Term(<<>>, 0)
    /\ IdleLcp /\ IdleParse /\ IdleShell

Next ==
    \/ Prompt
    \/ EscapeSequence
    \/ Submit
    \/ Tab
    \/ Backspace
    \/ Insert
    \/ Ignored
    \/ Dispatched

Spec == Init /\ [][Next]_vars

-----------------------------------------------------------------------------
(* lcp_ on its own *)

Words == UNION {[1..n -> Printable] : n \in 0..MaxWord}
StringLists == UNION {[1..n -> Words] : n \in 0..MaxStrings}

InitLcp ==
    /\ pc = "call"
    /\ strings \in StringLists
    /\ prefix = <<>>
    /\ IdleEdit /\ IdleParse /\ IdleShell

LcpCall ==
    /\ pc = "call"
    /\ prefix' = lcp_(strings)
    /\ pc' = "returned"
    /\ UNCHANGED <<strings, editVars, parseVars, shellVars>>

NextLcp == LcpCall

SpecLcp == InitLcp /\ [][NextLcp]_vars

-----------------------------------------------------------------------------
(* parse_cmd on its own *)

LineChars == {"a", " ", QUOTE, DQUOTE, ">"}
Lines == UNION {[1..n -> LineChars] : n \in 0..MaxLine}

InitParse ==
    /\ pc = "call"
    /\ line \in Lines
    /\ parsed = NoCommand
    /\ IdleEdit /\ IdleLcp /\ IdleShell

ParseCmd ==
    /\ pc = "call"
    /\ parsed' = parse_cmd(line)
    /\ pc' = "returned"
    /\ UNCHANGED <<line, editVars, lcpVars, shellVars>>

NextParse == ParseCmd

SpecParse == InitParse /\ [][NextParse]_vars

-----------------------------------------------------------------------------
(* parse_cmd on lines made of whole tokens, operators among them *)

MaxTokens == 4

PlainTokens == {<<"a">>, <<"b">>}
OperatorTokens == {<<">">>, <<"1", ">">>, <<">", ">">>, <<"1", ">", ">">>,
                   <<"2", ">">>, <<"2", ">", ">">>}
TokenLists == UNION {[1..n -> PlainTokens \cup OperatorTokens] : n \in 0..MaxTokens}

\* the line the user types for a token list: the tokens with one space between them
RECURSIVE TokenLine(_)
TokenLine(ts) ==
    IF ts = <<>> THEN <<>>
    ELSE IF Len(ts) = 1 THEN ts[1]
    ELSE ts[1] \o <<" ">> \o TokenLine(Tail(ts))

InitRedirect ==
    /\ pc = "call"
    /\ line \in {TokenLine(ts) : ts \in TokenLists}
    /\ parsed = NoCommand
    /\ IdleEdit /\ IdleLcp /\ IdleShell

SpecRedirect == InitRedirect /\ [][NextParse]_vars

-----------------------------------------------------------------------------
(* The descriptor table, and the system calls of apply_redirection and restore_io *)

Tty    == [kind |-> "tty", path |-> <<>>, append |-> FALSE]
Pipe   == [kind |-> "pipe", path |-> <<>>, append |-> FALSE]
Closed == [kind |-> "closed", path |-> <<>>, append |-> FALSE]
File(path, append) == [kind |-> "file", path |-> path, append |-> append]

FdRange == 0..(MaxFd - 1)

\* the lowest descriptor not in use, or -1 (EMFILE)
lowest_free(t) ==
    IF \A fd \in FdRange : t[fd] # Closed THEN -1
    ELSE CHOOSE fd \in FdRange : t[fd] = Closed /\ \A g \in 0..(fd - 1) : t[g] # Closed

Sys(t, ret) == [fds |-> t, ret |-> ret]

\* dup(fd)
sys_dup(t, fd) ==
    LET n == lowest_free(t) IN
    IF n = -1 \/ t[fd] = Closed THEN Sys(t, -1) ELSE Sys([t EXCEPT ![n] = t[fd]], n)

\* open(path, O_WRONLY | O_CREAT | (append ? O_APPEND : O_TRUNC), 0644); ok: the file can be opened
sys_open(t, path, append, ok) ==
    LET n == lowest_free(t) IN
    IF n = -1 \/ ~ok THEN Sys(t, -1) ELSE Sys([t EXCEPT ![n] = File(path, append)], n)

\* dup2(oldfd, newfd)
sys_dup2(t, oldfd, newfd) ==
    IF oldfd \in FdRange /\ t[oldfd] # Closed THEN [t EXCEPT ![newfd] = t[oldfd]] ELSE t

\* close(fd)
sys_close(t, fd) == IF fd \in FdRange THEN [t EXCEPT ![fd] = Closed] ELSE t

\* one of the two blocks of apply_redirection (lines 54-65, 67-78) for the stream fd
redirect_stream(t, redirect, file, append, fd, ok) ==
    IF redirect /\ file # <<>>
    THEN LET d == sys_dup(t, fd)
             o == sys_open(d.fds, file, append, ok) IN
         IF o.ret = -1
         THEN [fds |-> o.fds, saved |-> d.ret, did |-> FALSE]
         ELSE [fds |-> sys_close(sys_dup2(o.fds, o.ret, fd), o.ret), saved |-> d.ret, did |-> TRUE]
    ELSE [fds |-> t, saved |-> -1, did |-> FALSE]

\* apply_redirection (lines 49-79), called with saved_stdout = saved_stderr = -1
apply_redirection(c, t, ok_out, ok_err) ==
    LET o == redirect_stream(t, c.redirect_stdout, c.stdout_file, c.append_stdout,
                             STDOUT_FILENO, ok_out)
        e == redirect_stream(o.fds, c.redirect_stderr, c.stderr_file, c.append_stderr,
                             STDERR_FILENO, ok_err) IN
    [fds |-> e.fds, saved_stdout |-> o.saved, saved_stderr |-> e.saved,
     did_redirect_stdout |-> o.did, did_redirect_stderr |-> e.did]

restore_io_stdout_only(t, s_out, s_err, did_out, did_err) ==
    IF did_out THEN sys_close(sys_dup2(t, s_out, STDOUT_FILENO), s_out) ELSE t

\* restore_io (lines 81-91): the descriptor table it leaves
restore_io(t, s_out, s_err, did_out, did_err) ==
    LET t1 == IF did_out THEN sys_close(sys_dup2(t, s_out, STDOUT_FILENO), s_out) ELSE t IN
    IF did_err THEN sys_close(sys_dup2(t1, s_err, STDERR_FILENO), s_err) ELSE t1

\* restore_io_lambda (lines 280-283) on the current state
restore_io_lambda ==
    restore_io(fds, saved_stdout, saved_stderr, did_redirect_stdout, did_redirect_stderr)

-----------------------------------------------------------------------------
(* Commands *)

ECHO  == <<"e", "c", "h", "o">>
EXIT  == <<"e", "x", "i", "t">>
PWD   == <<"p", "w", "d">>
CD    == <<"c", "d">>
C     == <<"c">>
CLEAR == <<"c", "l", "e", "a", "r">>
TYPE  == <<"t", "y", "p", "e">>
WHICH == <<"w", "h", "i", "c", "h">>
KILL  == <<"k", "i", "l", "l">>

\* the names run_builtin has a branch for (lines 292-365), as listed on lines 287-288
builtins == {ECHO, EXIT, PWD, CD, C, CLEAR, TYPE, WHICH, KILL}

\* names that are not builtins: a program on the search path, and a name that is none
LS   == <<"l", "s">>
NOPE == <<"n", "o", "p", "e">>

\* first arguments: a number (to cd, a relative path), and two names cd treats specially
ONE == <<"1">>
DOT == <<".">>
TILDE == <<"~">>

FileF == <<"f">>
FileG == <<"g">>

\* the Commands parse_cmd hands to the dispatcher: a name, at most one argument, and each
\* stream either not redirected or redirected to a file, truncating or appending
Commands ==
    {[args |-> <<n>> \o a,
      redirect_stdout |-> o[1], stdout_file |-> o[2], append_stdout |-> o[3],
      redirect_stderr |-> e[1], stderr_file |-> e[2], append_stderr |-> e[3]] :
        n \in builtins \cup {LS, NOPE},
        a \in {<<>>, <<ONE>>, <<DOT>>, <<TILDE>>},
        o \in {<<FALSE, <<>>, FALSE>>, <<TRUE, FileF, FALSE>>, <<TRUE, FileF, TRUE>>},
        e \in {<<FALSE, <<>>, FALSE>>, <<TRUE, FileG, FALSE>>, <<TRUE, FileG, TRUE>>}}

cmd_name == cmd.args[1]

\* whether this call makes filesystem::current_path() raise: the working directory may
\* have been removed at any time
CwdGone == {TRUE, FALSE}

-----------------------------------------------------------------------------
(* main, run_builtin and exe_extr, one Command per prompt *)

\* read_input returns a line and parse_cmd returns its Command with args not empty
\* (lines 426-434); run_builtin is entered
ReadLine ==
    /\ pc = "read_input"
    /\ raw' = FALSE
    /\ \E c \in Commands : cmd' = c
    /\ entry' = <<fds[STDOUT_FILENO], fds[STDERR_FILENO]>>
    /\ files0' = files
    /\ pc' = "run_builtin"
    /\ term' = term_nl(term)
    /\ UNCHANGED <<input, cursor, env_path, ev, unread, key, lcpVars, parseVars, fds, saved_stdout,
                   saved_stderr, did_redirect_stdout, did_redirect_stderr, child, files,
                   out_buf, line_buffered>>

\* run_builtin, lines 275-278
ApplyRedirection ==
    /\ pc = "run_builtin"
    /\ \E ok_out, ok_err \in BOOLEAN :
         LET r == apply_redirection(cmd, fds, ok_out, ok_err) IN
         /\ fds' = r.fds
         /\ saved_stdout' = r.saved_stdout
         /\ saved_stderr' = r.saved_stderr
         /\ did_redirect_stdout' = r.did_redirect_stdout
         /\ did_redirect_stderr' = r.did_redirect_stderr
         /\ files' = LET o == IF r.did_redirect_stdout
                                THEN opened(files, cmd.stdout_file, cmd.append_stdout)
                                ELSE files IN
                      IF r.did_redirect_stderr
                      THEN opened(o, cmd.stderr_file, cmd.append_stderr) ELSE o
    /\ pc' = "builtin_body"
    /\ UNCHANGED <<editVars, lcpVars, parseVars, cmd, entry, child, files0, out_buf,
                   line_buffered>>

\* what every branch of run_builtin leaves alone
BodyFrame == UNCHANGED <<editVars, lcpVars, parseVars, cmd, saved_stdout, saved_stderr,
                         did_redirect_stdout, did_redirect_stderr, entry, child, files0,
                         line_buffered>>

\* a branch whose output is not followed. It runs with stdout a terminal, where every line
\* it prints has left the buffer of stdout before restore_io_lambda runs ("\n" on a
\* line-buffered stdout, endl or flush otherwise), and the files it writes are not in files.
NoOutput == UNCHANGED <<files, out_buf>>

\* the branch ends with restore_io_lambda() and return true
ReturnTrue == fds' = restore_io_lambda /\ pc' = "main"

\* an exception nothing catches leaves run_builtin and main: the process terminates
Uncaught == UNCHANGED fds /\ pc' = "terminated"

\* lines 292-294
BuiltinExit ==
    /\ pc = "builtin_body" /\ cmd_name = EXIT
    /\ fds' = restore_io_lambda
    /\ pc' = "exited"
    /\ NoOutput
    /\ BodyFrame

\* lines 295-310: current_path() and absolute() of a relative path need the working directory
BuiltinCd ==
    /\ pc = "builtin_body" /\ cmd_name = CD
    /\ \E gone \in CwdGone :
         IF gone /\ Len(cmd.args) >= 2 /\ cmd.args[2] # <<>> /\ cmd.args[2] # TILDE
         THEN Uncaught ELSE ReturnTrue
    /\ NoOutput
    /\ BodyFrame

\* lines 311-314
BuiltinClear ==
    /\ pc = "builtin_body" /\ cmd_name \in {C, CLEAR}
    /\ ReturnTrue
    /\ NoOutput
    /\ BodyFrame

\* lines 315-318
BuiltinPwd ==
    /\ pc = "builtin_body" /\ cmd_name = PWD
    /\ \E gone \in CwdGone : IF gone THEN Uncaught ELSE ReturnTrue
    /\ NoOutput
    /\ BodyFrame

\* lines 319-346: the usage message and early return, or the lookup; filesystem::exists
\* raises filesystem_error when a search-path directory cannot be searched
BuiltinType ==
    /\ pc = "builtin_body" /\ cmd_name \in {TYPE, WHICH}
    /\ \E denied \in BOOLEAN :
         IF denied /\ Len(cmd.args) >= 2 /\ cmd.args[2] \notin builtins
         THEN Uncaught ELSE ReturnTrue
    /\ NoOutput
    /\ BodyFrame

\* lines 347-364: the usage message and early return, or the signal; stoi's exception is caught
BuiltinKill ==
    /\ pc = "builtin_body" /\ cmd_name = KILL
    /\ ReturnTrue
    /\ NoOutput
    /\ BodyFrame

\* the loop of lines 366-370 from argument i (1-based) on: the text echo gives to cout
RECURSIVE echo_for(_, _)
echo_for(args, i) ==
    IF i > Len(args) THEN <<>>
    ELSE args[i] \o (IF i # Len(args) THEN <<" ">> ELSE <<>>) \o echo_for(args, i + 1)

\* lines 365-373: the arguments, then "\n" without a flush, then restore_io_lambda
BuiltinEcho ==
    /\ pc = "builtin_body" /\ cmd_name = ECHO
    /\ LET w == cout_write(out_buf, echo_for(cmd.args, 2) \o <<"\n">>, line_buffered) IN
         /\ files' = sys_write(files, fds, STDOUT_FILENO, w.out)
         /\ out_buf' = w.buf
    /\ ReturnTrue
    /\ BodyFrame

\* lines 376-377, then main line 437: no branch matched
NotBuiltin ==
    /\ pc = "builtin_body" /\ cmd_name \notin builtins
    /\ fds' = restore_io_lambda
    /\ pc' = "exe_extr"
    /\ NoOutput
    /\ BodyFrame

ShellFrame == UNCHANGED <<editVars, lcpVars, parseVars, cmd, fds, saved_stdout, saved_stderr,
                          did_redirect_stdout, did_redirect_stderr, entry, fileVars>>

\* exe_extr, line 381, and lines 416-418 when fork fails
Fork ==
    /\ pc = "exe_extr"
    /\ \E forked \in BOOLEAN :
         IF forked
         THEN /\ child' = [state |-> "forked", fds |-> fds, open_failed |-> FALSE,
                            execd |-> FALSE]
              /\ pc' = "waitpid"
         ELSE child' = NoChild /\ pc' = "main"
    /\ ShellFrame

\* one of the two blocks of the child (lines 384-393, 394-403) on the child's table
child_redirect(t, redirect, file, append, fd, ok) ==
    IF redirect /\ file # <<>>
    THEN LET o == sys_open(t, file, append, ok) IN
         IF o.ret = -1 THEN [fds |-> o.fds, exits |-> TRUE]
         ELSE [fds |-> sys_close(sys_dup2(o.fds, o.ret, fd), o.ret), exits |-> FALSE]
    ELSE [fds |-> t, exits |-> FALSE]

\* the child, lines 384-403: perror and exit(1) when a target cannot be opened
ChildRedirect ==
    /\ pc = "waitpid" /\ child.state = "forked"
    /\ \E ok_out, ok_err \in BOOLEAN :
         LET o == child_redirect(child.fds, cmd.redirect_stdout, cmd.stdout_file,
                                 cmd.append_stdout, STDOUT_FILENO, ok_out)
             e == child_redirect(o.fds, cmd.redirect_stderr, cmd.stderr_file,
                                 cmd.append_stderr, STDERR_FILENO, ok_err) IN
         child' = IF o.exits
                  THEN [child EXCEPT !.state = "exited", !.fds = o.fds, !.open_failed = TRUE]
                  ELSE IF e.exits
                  THEN [child EXCEPT !.state = "exited", !.fds = e.fds, !.open_failed = TRUE]
                  ELSE [child EXCEPT !.state = "redirected", !.fds = e.fds]
    /\ UNCHANGED pc
    /\ ShellFrame

\* the child, lines 405-412: execvp is called (execd), and exit(1) when it returns
ChildExec ==
    /\ pc = "waitpid" /\ child.state = "redirected"
    /\ child' = [child EXCEPT !.state = IF cmd_name = LS THEN "running" ELSE "exited",
                              !.execd = TRUE]
    /\ UNCHANGED pc
    /\ ShellFrame

\* the program run by the child ends
ChildExit ==
    /\ pc = "waitpid" /\ child.state = "running"
    /\ child' = [child EXCEPT !.state = "exited"]
    /\ UNCHANGED pc
    /\ ShellFrame

\* lines 413-415 with a waitpid that does not block (WNOHANG): the parent goes on at once
WaitPid_no_hang ==
    /\ pc = "waitpid"
    /\ pc' = "main"
    /\ UNCHANGED child
    /\ ShellFrame

\* the parent, lines 413-415: waitpid returns once the child has terminated
WaitPid ==
    /\ pc = "waitpid" /\ child.state = "exited"
    /\ child' = NoChild
    /\ pc' = "main"
    /\ ShellFrame

InitShell ==
    /\ pc = "main"
    /\ IdleEdit /\ IdleLcp /\ IdleParse
    /\ cmd = NoCommand
    /\ \E err \in {Tty, Pipe} :
         fds = [fd \in FdRange |-> IF fd \in {0, 1} THEN Tty ELSE IF fd = 2 THEN err ELSE Closed]
    /\ saved_stdout = -1
    /\ saved_stderr = -1
    /\ did_redirect_stdout = FALSE
    /\ did_redirect_stderr = FALSE
    /\ entry = <<Tty, Tty>>
    /\ child = NoChild
    /\ files = <<>>
    /\ files0 = <<>>
    /\ out_buf = <<>>
    /\ line_buffered = TRUE

NextShell ==
    \/ Prompt
    \/ ReadLine
    \/ ApplyRedirection
    \/ BuiltinExit
    \/ BuiltinCd
    \/ BuiltinClear
    \/ BuiltinPwd
    \/ BuiltinType
    \/ BuiltinKill
    \/ BuiltinEcho
    \/ NotBuiltin
    \/ Fork
    \/ ChildRedirect
    \/ ChildExec
    \/ ChildExit
    \/ WaitPid

SpecShell == InitShell /\ [][NextShell]_vars

-----------------------------------------------------------------------------
(* echo with its stdout redirected, one Command per prompt, and the content of the files *)

MaxFileLen == 12

\* the arguments a and b of echo a b c (c is C)
A == <<"a">>
B == <<"b">>

FileNames == {FileF, FileG}

\* what a file may hold before the first command: it does not exist, is empty, or has a line
PriorFiles == {NoFile, [exists |-> TRUE, data |-> <<>>],
               [exists |-> TRUE, data |-> <<"b", "\n">>]}

\* the Commands of the lines "echo a b c > file", "echo a b c >> file" (1> and 1>> give the
\* same Commands)
EchoCommands ==
    {[args |-> <<ECHO, A, B, C>>,
      redirect_stdout |-> TRUE, stdout_file |-> f, append_stdout |-> app,
      redirect_stderr |-> FALSE, stderr_file |-> <<>>, append_stderr |-> FALSE] :
        f \in FileNames, app \in BOOLEAN}

\* ReadLine for such a line: read_input returns it (cout << endl on line 157 leaves nothing
\* in the buffer of stdout) and parse_cmd returns its Command; run_builtin is entered
ReadEchoLine ==
    /\ pc = "read_input"
    /\ raw' = FALSE
    /\ \E c \in EchoCommands :
         /\ c.append_stdout =>
               Len(files[c.stdout_file].data) + Len(echo_for(c.args, 2)) + 1 <= MaxFileLen
         /\ cmd' = c
    /\ entry' = <<fds[STDOUT_FILENO], fds[STDERR_FILENO]>>
    /\ files0' = files
    /\ files' = sys_write(files, fds, STDOUT_FILENO, cout_flush(out_buf, <<"\n">>).out)
    /\ out_buf' = <<>>
    /\ pc' = "run_builtin"
    /\ term' = term_nl(term)
    /\ UNCHANGED <<input, cursor, env_path, ev, unread, key, lcpVars, parseVars, fds, saved_stdout,
                   saved_stderr, did_redirect_stdout, did_redirect_stderr, child,
                   line_buffered>>

\* the shell is started with its stdout on a terminal or not (a pipe, as under a program
\* that drives it); line 422 is the first output
InitEcho ==
    /\ pc = "main"
    /\ IdleEdit /\ IdleLcp /\ IdleParse
    /\ cmd = NoCommand
    /\ \E out \in {Tty, Pipe} :
         /\ fds = [fd \in FdRange |->
                     IF fd \in {0, 2} THEN Tty ELSE IF fd = 1 THEN out ELSE Closed]
         /\ entry = <<out, Tty>>
         /\ line_buffered = (out = Tty)
    /\ saved_stdout = -1
    /\ saved_stderr = -1
    /\ did_redirect_stdout = FALSE
    /\ did_redirect_stderr = FALSE
    /\ child = NoChild
    /\ files \in [FileNames -> PriorFiles]
    /\ files0 = files
    /\ out_buf = <<>>

NextEcho ==
    \/ Prompt
    \/ ReadEchoLine
    \/ ApplyRedirection
    \/ BuiltinEcho

SpecEcho == InitEcho /\ [][NextEcho]_vars

-----------------------------------------------------------------------------
(* Properties of read_input, checked under Spec *)

IsPrefix(p, s) == Len(p) <= Len(s) /\ SubSeq(s, 1, Len(p)) = p

\* the executables on the search path whose name starts with p, as positions <<directory, entry>>
Hits(p) ==
    UNION {{<<i, k>> : k \in {k \in 1..Len(env_path[i].entries) :
                                 /\ env_path[i].kind = "dir"
                                 /\ env_path[i].entries[k].x
                                 /\ IsPrefix(p, env_path[i].entries[k].name)}} :
           i \in 1..Len(env_path)}

HitNames(p) == {env_path[h[1]].entries[h[2]].name : h \in Hits(p)}

Prefixes(s) == {SubSeq(s, 1, n) : n \in 0..Len(s)}

CommonPrefixes(S) == {q \in UNION {Prefixes(s) : s \in S} : \A s \in S : IsPrefix(q, s)}

LongestCommonPrefix(S) ==
    CHOOSE q \in CommonPrefixes(S) : \A r \in CommonPrefixes(S) : Len(r) <= Len(q)

MoveRightKey == <<ESC, "[", "C">>
MoveLeftKey  == <<ESC, "[", "D">>

\* C1: whenever the shell is anywhere outside read_input (parsing, dispatching, exited,
\* terminated), the terminal is not in raw mode.
C1_RawModeOnlyInsideReadInput == pc # "read_input" => ~raw

\* C4: in every state of a line read, 0 <= cursor <= len(buffer).
C4_CursorWithinBuffer == 0 <= cursor /\ cursor <= Len(input)

\* a right arrow was pressed with the cursor at the end of a non-empty buffer
C4_Witness ==
    /\ pc = "read_input" /\ ev.bytes = MoveRightKey
    /\ input # <<>> /\ cursor = Len(input)

\* C5: Insert(ch) at cursor k of buffer b yields b[0..k) + ch + b[k..) and cursor k + 1;
\* the length grows by exactly one.
C5_InsertShiftsTail ==
    [][ev'.kind = "insert" =>
          /\ input' = SubSeq(input, 1, cursor) \o ev'.bytes \o SubSeq(input, cursor + 1, Len(input))
          /\ Len(input') = Len(input) + 1
          /\ cursor' = cursor + 1]_vars

\* a character was inserted with characters on both sides of it
C5_Witness == ev.kind = "insert" /\ 2 <= cursor /\ cursor < Len(input)

\* C6: Backspace at cursor 0, MoveLeft at cursor 0 and MoveRight at the end of the buffer
\* change neither buffer nor cursor; MoveLeft and MoveRight never change the buffer.
C6_BoundaryKeysAreNoOps ==
    [][/\ (ev'.kind = "backspace" /\ cursor = 0) => (input' = input /\ cursor' = cursor)
       /\ (ev'.bytes = MoveLeftKey /\ cursor = 0) => (input' = input /\ cursor' = cursor)
       /\ (ev'.bytes = MoveRightKey /\ cursor = Len(input)) => (input' = input /\ cursor' = cursor)
       /\ ev'.bytes \in {MoveLeftKey, MoveRightKey} => input' = input]_vars

\* Backspace was pressed at cursor 0 of a full buffer that no deletion produces
C6_Witness == ev.kind = "backspace" /\ cursor = 0 /\ input = <<"b", "b", "b">>

\* C7: a Tab on a non-empty buffer that is the prefix of exactly one executable makes the
\* buffer that filename plus one space, cursor at the end; a Tab on an empty buffer or with
\* no match changes neither.
C7_SingleMatchCompletes ==
    [][(ev'.kind = "tab" /\ pc' = "read_input") =>
          /\ (input = <<>> \/ Hits(input) = {}) => (input' = input /\ cursor' = cursor)
          /\ (input # <<>> /\ Cardinality(Hits(input)) = 1) =>
                /\ \E n \in HitNames(input) : input' = n \o <<" ">>
                /\ cursor' = Len(input')]_vars

\* the buffer holds a completed filename with its trailing space
C7_Witness == ev.kind = "tab" /\ input = <<"a", "b", "b", " ">> /\ cursor = 4

\* C8: a Tab with two or more matches replaces the buffer by their longest common prefix,
\* cursor at the end, when that differs from the buffer, and leaves the buffer alone when
\* it does not; the old buffer is a prefix of the new one.
C8_ManyMatchesCompleteToLcp ==
    [][(ev'.kind = "tab" /\ pc' = "read_input" /\ input # <<>> /\ Cardinality(Hits(input)) >= 2) =>
          LET L == LongestCommonPrefix(HitNames(input)) IN
          /\ L # input => (input' = L /\ cursor' = Len(L))
          /\ L = input => input' = input
          /\ IsPrefix(input, input')]_vars

\* the buffer was extended to the common prefix b- of b-a and b-b
C8_Witness == ev.kind = "tab" /\ input = <<"b", "-">> /\ cursor = 2

-----------------------------------------------------------------------------
(* Properties of lcp_, checked under SpecLcp *)

Range(f) == {f[i] : i \in DOMAIN f}

Reorderings(ss) ==
    {[i \in DOMAIN ss |-> ss[f[i]]] : f \in {g \in [DOMAIN ss -> DOMAIN ss] : Range(g) = DOMAIN ss}}

\* C9: lcp_ returns the longest common prefix of its list: a prefix of every element, with
\* no longer common prefix; empty for the empty list, the string itself for a list of one,
\* the shorter string when one element is a prefix of the other; whatever the order.
C9_LcpIsLongestCommonPrefix ==
    pc = "returned" =>
        /\ strings = <<>> => prefix = <<>>
        /\ Len(strings) = 1 => prefix = strings[1]
        /\ \A i \in DOMAIN strings : IsPrefix(prefix, strings[i])
        /\ \A q \in CommonPrefixes(Range(strings)) : Len(q) <= Len(prefix)
        /\ \A i, k \in DOMAIN strings :
              (i # k /\ Len(strings) = 2 /\ IsPrefix(strings[i], strings[k])) => prefix = strings[i]
        /\ \A p \in Reorderings(strings) : lcp_(p) = prefix

\* lcp_ cut its first string down to a proper, non-empty common prefix
C9_Witness ==
    /\ pc = "returned" /\ Len(strings) = 3
    /\ strings[1] = <<"a", "b">> /\ strings[3] = <<"a", "a">>
    /\ prefix = <<"a">>

-----------------------------------------------------------------------------
(* Properties of parse_cmd, checked under SpecParse *)

\* the position of the first ch in s after position i, or 0
RECURSIVE NextOccurrence(_, _, _)
NextOccurrence(s, i, ch) ==
    IF i >= Len(s) THEN 0
    ELSE IF s[i + 1] = ch THEN i + 1 ELSE NextOccurrence(s, i + 1, ch)

IsQuote(ch) == ch \in {QUOTE, DQUOTE}

\* every quote that opens a span is followed by the same quote character
RECURSIVE Balanced(_)
Balanced(s) ==
    IF s = <<>> THEN TRUE
    ELSE IF IsQuote(s[1])
    THEN LET j == NextOccurrence(s, 1, s[1]) IN
         j # 0 /\ Balanced(SubSeq(s, j + 1, Len(s)))
    ELSE Balanced(Tail(s))

Mark(chars, q) == [i \in DOMAIN chars |-> [ch |-> chars[i], quoted |-> q]]

\* the line without the quote characters that delimit its spans, each remaining character
\* marked with whether it stood inside a span
RECURSIVE Unquoted(_)
Unquoted(s) ==
    IF s = <<>> THEN <<>>
    ELSE IF IsQuote(s[1])
    THEN LET j == NextOccurrence(s, 1, s[1]) IN
         Mark(SubSeq(s, 2, j - 1), TRUE) \o Unquoted(SubSeq(s, j + 1, Len(s)))
    ELSE Mark(<<s[1]>>, FALSE) \o Unquoted(Tail(s))

Content(m) == [i \in DOMAIN m |-> m[i].ch]

IsSeparator(m, i) == m[i].ch = " " /\ ~m[i].quoted

\* every space outside quotes stands alone between two characters that are not such spaces
SingleSeparators(m) ==
    \A i \in DOMAIN m :
        IsSeparator(m, i) =>
            /\ 1 < i /\ i < Len(m)
            /\ ~IsSeparator(m, i - 1) /\ ~IsSeparator(m, i + 1)

RECURSIVE Rejoin(_)
Rejoin(toks) ==
    IF toks = <<>> THEN <<>>
    ELSE IF Len(toks) = 1 THEN toks[1]
    ELSE toks[1] \o <<" ">> \o Rejoin(Tail(toks))

NoRedirection(s) == \A i \in DOMAIN s : s[i] # ">"

\* C10 as stated: for every line with balanced quotes and no redirection operator, the
\* tokens rejoined with single spaces are the line's unquoted content.
C10_RejoinIsUnquotedContent ==
    (pc = "returned" /\ Balanced(line) /\ NoRedirection(line)) =>
        Rejoin(parsed.args) = Content(Unquoted(line))

\* C10 as amended: the same for the lines in which every space outside quotes is a single
\* one between two tokens; such a line yields one token more than it has such spaces.
C10_RejoinIsUnquotedContentSingleSeparators ==
    (pc = "returned" /\ Balanced(line) /\ NoRedirection(line)
        /\ SingleSeparators(Unquoted(line))) =>
        /\ Rejoin(parsed.args) = Content(Unquoted(line))
        /\ Unquoted(line) # <<>> =>
              Len(parsed.args) =
                 1 + Cardinality({i \in DOMAIN Unquoted(line) : IsSeparator(Unquoted(line), i)})

\* a'" ' was parsed into the one token a" with its trailing space
C10_Witness ==
    /\ pc = "returned"
    /\ line = <<"a", QUOTE, DQUOTE, " ", QUOTE>>
    /\ parsed.args = << <<"a", DQUOTE, " ">> >>

-----------------------------------------------------------------------------
(* Properties of parse_cmd's Command, checked under SpecParse *)

\* the characters of the line marked as Unquoted marks them; a quote that is never closed
\* quotes the rest of the line
RECURSIVE Marks(_)
Marks(s) ==
    IF s = <<>> THEN <<>>
    ELSE IF IsQuote(s[1])
    THEN LET j == NextOccurrence(s, 1, s[1]) IN
         IF j = 0 THEN Mark(Tail(s), TRUE)
         ELSE Mark(SubSeq(s, 2, j - 1), TRUE) \o Marks(SubSeq(s, j + 1, Len(s)))
    ELSE Mark(<<s[1]>>, FALSE) \o Marks(Tail(s))

\* the maximal non-empty runs of marked characters between separators
RECURSIVE Runs(_, _)
Runs(m, cur) ==
    IF m = <<>> THEN (IF cur = <<>> THEN <<>> ELSE <<cur>>)
    ELSE IF IsSeparator(m, 1)
    THEN (IF cur = <<>> THEN <<>> ELSE <<cur>>) \o Runs(Tail(m), <<>>)
    ELSE Runs(Tail(m), Append(cur, m[1].ch))

WordsOf(s) == Runs(Marks(s), <<>>)

StdoutOperators == {<<">">>, <<"1", ">">>, <<">", ">">>, <<"1", ">", ">">>}
StderrOperators == {<<"2", ">">>, <<"2", ">", ">">>}
Operators == StdoutOperators \cup StderrOperators

\* the words are operators, each followed by its target when a word follows it
RECURSIVE OnlyRedirections(_)
OnlyRedirections(ws) ==
    \/ ws = <<>>
    \/ ws[1] \in Operators /\ OnlyRedirections(SubSeq(ws, 3, Len(ws)))

\* C11 as stated: the Command of parse_cmd has empty args only when the line was empty or
\* held nothing but redirection operators with their targets.
C11_ArgsEmptyOnlyForEmptyOrRedirections ==
    (pc = "returned" /\ parsed.args = <<>>) =>
        \/ line = <<>>
        \/ WordsOf(line) # <<>> /\ OnlyRedirections(WordsOf(line))

\* C11 as amended: args is empty only when the line holds no word at all (it is empty, or
\* made of whitespace and empty quoted spans) or nothing but redirection operators with
\* their targets.
C11_ArgsEmptyOnlyForNoWordsOrRedirections ==
    (pc = "returned" /\ parsed.args = <<>>) => OnlyRedirections(WordsOf(line))

\* "> a" was parsed into a Command without args whose stdout target is a
C11_Witness ==
    /\ pc = "returned" /\ line = <<">", " ", "a">>
    /\ parsed.args = <<>> /\ parsed.redirect_stdout /\ parsed.stdout_file = <<"a">>

-----------------------------------------------------------------------------
(* Properties of parse_cmd's redirection pass, checked under SpecRedirect *)

\* word i is read by the pass as an operator: it is one, and the word before it was not
\* read as an operator (so word i is not that operator's target)
RECURSIVE IsOperatorAt(_, _)
IsOperatorAt(ws, i) == ws[i] \in Operators /\ (i = 1 \/ ~IsOperatorAt(ws, i - 1))

IsTargetAt(ws, i) == i > 1 /\ IsOperatorAt(ws, i - 1)

\* the words that are neither operators nor targets, in their order
RECURSIVE Others(_, _)
Others(ws, i) ==
    IF i > Len(ws) THEN <<>>
    ELSE IF IsOperatorAt(ws, i) \/ IsTargetAt(ws, i) THEN Others(ws, i + 1)
    ELSE <<ws[i]>> \o Others(ws, i + 1)

\* the positions of the operators of a stream that have a target
Redirecting(ws, ops) == {i \in 1..(Len(ws) - 1) : IsOperatorAt(ws, i) /\ ws[i] \in ops}

Max(S) == CHOOSE m \in S : \A k \in S : k <= m

IsAppend(op) == Len(op) >= 2 /\ op[Len(op) - 1] = ">"

\* the flag, path and append flag of a stream are those of its last operator with a target
StreamIs(ws, ops, redirect, file, append) ==
    IF Redirecting(ws, ops) = {}
    THEN ~redirect /\ file = <<>> /\ ~append
    ELSE LET m == Max(Redirecting(ws, ops)) IN
         redirect /\ file = ws[m + 1] /\ append = IsAppend(ws[m])

\* C12: every operator with a following token removes itself and that token from args and
\* sets its stream's target to that token, whatever it is, and the append flag by the
\* operator; an operator that ends the list is removed and sets nothing; the other tokens
\* are args, in their order.
C12_RedirectionPass ==
    pc = "returned" =>
        LET ws == WordsOf(line) IN
        /\ parsed.args = Others(ws, 1)
        /\ StreamIs(ws, StdoutOperators, parsed.redirect_stdout, parsed.stdout_file,
                    parsed.append_stdout)
        /\ StreamIs(ws, StderrOperators, parsed.redirect_stderr, parsed.stderr_file,
                    parsed.append_stderr)

\* "a 2>> > 1>" was parsed: the target of 2>> is the token >, and the last 1> is dropped
C12_Witness ==
    /\ pc = "returned"
    /\ WordsOf(line) = << <<"a">>, <<"2", ">", ">">>, <<">">>, <<"1", ">">> >>
    /\ parsed.args = << <<"a">> >>
    /\ parsed.redirect_stderr /\ parsed.append_stderr /\ parsed.stderr_file = <<">">>
    /\ ~parsed.redirect_stdout

\* ws with the pair <<op, target>> put in after its first k words
WithPairAt(ws, k, op, target) ==
    SubSeq(ws, 1, k) \o <<op, target>> \o SubSeq(ws, k + 1, Len(ws))

\* the line is one stdout operator with its target among words that are not operators
OneStdoutPair(ws, i) ==
    /\ i \in 1..(Len(ws) - 1)
    /\ ws[i] \in StdoutOperators
    /\ \A k \in DOMAIN ws : (k # i /\ k # i + 1) => ws[k] \notin Operators

\* C13: for a line with one stdout redirection, the pair of operator and target put at any
\* place among the other tokens gives the same args, stdout target and append flag.
C13_PairPositionIndependent ==
    pc = "returned" =>
        \A i \in DOMAIN WordsOf(line) :
            OneStdoutPair(WordsOf(line), i) =>
                LET ws   == WordsOf(line)
                    rest == SubSeq(ws, 1, i - 1) \o SubSeq(ws, i + 2, Len(ws)) IN
                /\ parsed.args = rest
                /\ \A k \in 0..Len(rest) :
                      LET c == parse_cmd(Rejoin(WithPairAt(rest, k, ws[i], ws[i + 1]))) IN
                      /\ c.args = parsed.args
                      /\ c.redirect_stdout = parsed.redirect_stdout
                      /\ c.stdout_file = parsed.stdout_file
                      /\ c.append_stdout = parsed.append_stdout

\* "a >> b b" was parsed: the pair stands between the command name and its argument
C13_Witness ==
    /\ pc = "returned"
    /\ WordsOf(line) = << <<"a">>, <<">", ">">>, <<"b">>, <<"b">> >>
    /\ parsed.args = << <<"a">>, <<"b">> >>
    /\ parsed.redirect_stdout /\ parsed.append_stdout /\ parsed.stdout_file = <<"b">>

-----------------------------------------------------------------------------
(* Properties of the dispatcher, checked under SpecShell *)

IsBuiltin(c) == c.args # <<>> /\ c.args[1] \in builtins

StreamsAsOnEntry == fds[STDOUT_FILENO] = entry[1] /\ fds[STDERR_FILENO] = entry[2]

C3_ParentStreamsUntouchedByExternal ==
    (cmd.args # <<>> /\ ~IsBuiltin(cmd)) => StreamsAsOnEntry

\* a stream of the command had a target that apply_redirection could not bind
UnboundStdout == cmd.redirect_stdout /\ cmd.stdout_file # <<>> /\ ~did_redirect_stdout
UnboundStderr == cmd.redirect_stderr /\ cmd.stderr_file # <<>> /\ ~did_redirect_stderr

\* C14: when a redirection target cannot be opened the command still runs, without that
\* redirection: the body of a builtin runs with the stream bound as on entry, and the child
\* of an external command goes on to execvp.
C14_UnopenableTargetStillRuns ==
    /\ (pc = "builtin_body" /\ UnboundStdout) => fds[STDOUT_FILENO] = entry[1]
    /\ (pc = "builtin_body" /\ UnboundStderr) => fds[STDERR_FILENO] = entry[2]
    /\ (child.state = "exited" /\ child.open_failed) => child.execd

\* C15: no failure ends the prompt loop except an explicit exit: the shell process is never
\* terminated by a failure of a service it uses.
C15_OnlyExitEndsThePromptLoop == pc # "terminated"

Alive(c) == c.state \in {"forked", "redirected", "running"}

\* C16: while the child of an external command has not terminated the parent is blocked in
\* waitpid: it neither prints the next prompt nor reads the next line, and it forks only
\* when it has no child, so at most one child runs at any time.
C16_ParentWaitsForChild ==
    /\ Alive(child) => pc = "waitpid"
    /\ pc = "exe_extr" => child = NoChild

\* the child has redirected its stderr and runs ls; the parent is in waitpid
C16_Witness ==
    /\ pc = "waitpid" /\ child.state = "running"
    /\ child.fds[STDERR_FILENO] = File(FileG, TRUE)

OpenDescriptors(t) == {fd \in DOMAIN t : t[fd] # Closed}

\* C20: every descriptor apply_redirection creates for a builtin is closed by the time
\* run_builtin returns: at the prompt after builtins the open descriptors are those the
\* shell started with, whether the targets could be opened or not.
C20_DescriptorsBalanced ==
    (pc = "main" /\ (cmd = NoCommand \/ IsBuiltin(cmd))) =>
        OpenDescriptors(fds) = {0, STDOUT_FILENO, STDERR_FILENO}

-----------------------------------------------------------------------------
(* Properties of echo with a redirected stdout, checked under SpecEcho *)

ABCLine == <<"a", " ", "b", " ", "c", "\n">>

\* C17: once echo a b c with its stdout redirected to a file that could be opened has
\* returned, the file holds exactly the line a b c after > (whatever it held, or created),
\* and what it held followed by one more line a b c after >>; the other file is as it was.
\* This holds after every command of any sequence of such commands.
C17_EchoWritesItsLineToTheFile ==
    (pc \in {"main", "read_input"} /\ cmd \in EchoCommands /\ did_redirect_stdout) =>
        /\ files[cmd.stdout_file].exists
        /\ files[cmd.stdout_file].data =
              (IF cmd.append_stdout THEN files0[cmd.stdout_file].data ELSE <<>>) \o ABCLine
        /\ \A f \in FileNames \ {cmd.stdout_file} : files[f] = files0[f]

-----------------------------------------------------------------------------
(* Properties of read_input's decoding and redrawing, checked under Spec *)

Arrows == {<<ESC, "[", "C">>, <<ESC, "[", "D">>}

\* C18: an escape sequence other than ESC [ C and ESC [ D is discarded: once the bytes of
\* such a key have all been read, the last thing done is the discarding of the sequence
\* (no byte of it was a key event of its own), and buffer and cursor are what they were
\* when the key was pressed.
C18_OtherEscapeSequencesDiscarded ==
    (pc = "read_input" /\ key.seq # <<>> /\ key.seq \notin Arrows /\ unread = <<>>) =>
        /\ ev.kind = "escape"
        /\ input = key.input
        /\ cursor = key.cursor

RECURSIVE WithoutTrailingBlanks(_)
WithoutTrailingBlanks(cells) ==
    IF cells # <<>> /\ cells[Len(cells)] = " "
    THEN WithoutTrailingBlanks(SubSeq(cells, 1, Len(cells) - 1))
    ELSE cells

\* the terminal's line reads as the prompt followed by the buffer, its cursor on the
\* buffer's cursor
Shows(t, inp, cur) ==
    /\ WithoutTrailingBlanks(t.cells) = WithoutTrailingBlanks(PROMPT \o inp)
    /\ t.col = Len(PROMPT) + cur

\* C19: after every mutating transition of the editor (Insert, Backspace with cursor > 0,
\* a completion request that finds matches: one match, a longer common prefix, or the
\* listing of several matches) the terminal's line shows the prompt followed by exactly the
\* buffer, and the terminal's cursor column is the prompt's width plus cursor.
C19_RedrawShowsBufferAndCursor ==
    [][(/\ pc' = "read_input"
        /\ \/ ev'.kind = "insert"
           \/ ev'.kind = "backspace" /\ cursor > 0
           \/ ev'.kind = "tab" /\ input # <<>> /\ Hits(input) # {})
       => Shows(term', input', cursor')]_vars

====
